---- MODULE Spec2Model ----
(***************************************************************************)
(* Gradient descent visualiser: the App state (learning rate, tick rate,   *)
(* restart key, selected surface, custom start), the DescentMarker         *)
(* component (position state, gradient estimator, interval effect) and the *)
(* SurfaceMesh geometry builder.                                           *)
(*                                                                         *)
(* JavaScript numbers are modelled as signed decimal fixed-point numbers   *)
(* with FracLimbs limbs of four decimal digits after the point and an      *)
(* unbounded integer part; every operation rounds its exact result to the  *)
(* nearest representable number, as IEEE-754 arithmetic does at its own    *)
(* resolution.  NaN and the infinities are values of their own; overflow   *)
(* to an infinity does not occur and zero has no sign.                     *)
(***************************************************************************)
EXTENDS Integers, Sequences, FiniteSets, TLC

(***************************************************************************)
(* Numbers.  A number is [neg, mag]: mag is the little-endian sequence of  *)
(* base-10^4 limbs of |value| * Base^FracLimbs, without high zero limbs;   *)
(* zero is [neg |-> FALSE, mag |-> <<>>].                                  *)
(***************************************************************************)
Base == 10 * 1000

FracLimbs == 3

\* the element of a singleton set; The({e(v) : v \in {a}}) evaluates a once
The(S) == CHOOSE r \in S : TRUE

Limb(s, i) == IF i <= Len(s) THEN s[i] ELSE 0

\* a without its high zero limbs
RECURSIVE MagNorm(_)
MagNorm(a) ==
  The({IF s = <<>> \/ s[Len(s)] # 0 THEN s ELSE MagNorm(SubSeq(s, 1, Len(s) - 1)) : s \in {a}})

RECURSIVE CmpAt(_, _, _)
CmpAt(a, b, i) ==
  IF i = 0 THEN 0
  ELSE IF a[i] # b[i] THEN (IF a[i] < b[i] THEN -1 ELSE 1)
  ELSE CmpAt(a, b, i - 1)

\* -1, 0, 1 as a < b, a = b, a > b
MagCmp(a, b) ==
  The({IF Len(u) # Len(v) THEN (IF Len(u) < Len(v) THEN -1 ELSE 1) ELSE CmpAt(u, v, Len(u)) :
       u \in {a}, v \in {b}})

\* the limbs of a + b from limb i up, c the carry into limb i
RECURSIVE AddAt(_, _, _, _)
AddAt(a, b, i, c) ==
  IF i > Len(a) /\ i > Len(b) THEN (IF c = 0 THEN <<>> ELSE <<c>>)
  ELSE The({<<t % Base>> \o AddAt(a, b, i + 1, t \div Base) :
            t \in {Limb(a, i) + Limb(b, i) + c}})

MagAdd(a, b) == The({AddAt(u, v, 1, 0) : u \in {a}, v \in {b}})

\* the limbs of a - b from limb i up, c the borrow from limb i
RECURSIVE SubAt(_, _, _, _)
SubAt(a, b, i, c) ==
  IF i > Len(a) THEN <<>>
  ELSE The({<<(t + Base) % Base>> \o SubAt(a, b, i + 1, IF t < 0 THEN 1 ELSE 0) :
            t \in {a[i] - Limb(b, i) - c}})

\* a - b for a >= b
MagSub(a, b) == The({MagNorm(SubAt(u, v, 1, 0)) : u \in {a}, v \in {b}})

\* a * Base^n
MagShiftLeft(a, n) == The({IF u = <<>> THEN <<>> ELSE [i \in 1..n |-> 0] \o u : u \in {a}})

\* the sum of a[i] * b[k + 1 - i] over i in lo..hi
RECURSIVE Column(_, _, _, _, _)
Column(a, b, k, lo, hi) ==
  IF lo > hi THEN 0 ELSE a[lo] * b[k + 1 - lo] + Column(a, b, k, lo + 1, hi)

\* the limbs above limb drop of a * b + Base^drop / 2, from limb k up, c the carry
\* into limb k
RECURSIVE MulAt(_, _, _, _, _)
MulAt(a, b, drop, k, c) ==
  IF k > Len(a) + Len(b) /\ k > drop + 1 THEN <<>>
  ELSE The({(IF k > drop THEN <<t % Base>> ELSE <<>>) \o MulAt(a, b, drop, k + 1, t \div Base) :
            t \in {Column(a, b, k, IF k > Len(b) THEN k + 1 - Len(b) ELSE 1,
                          IF k < Len(a) THEN k ELSE Len(a))
                   + c + (IF k = drop THEN Base \div 2 ELSE 0)}})

\* a * b / Base^drop rounded to nearest (half up), for numbers of at most 20 limbs
MagMul(a, b, drop) ==
  The({IF u = <<>> \/ v = <<>> THEN <<>> ELSE MagNorm(MulAt(u, v, drop, 1, 0)) :
       u \in {a}, v \in {b}})

\* the largest q <= guess with q * b <= r, for a guess at most 2 above it
RECURSIVE QDigit(_, _, _)
QDigit(r, b, guess) ==
  The({IF MagCmp(MagMul(b, <<q>>, 0), r) <= 0 THEN q ELSE QDigit(r, b, q - 1) : q \in {guess}})

\* long division of a by b, whose high limb is at least Base / 2, from limb i of a
\* down; rem is the remainder and quot the quotient so far: <<quotient, remainder>>
RECURSIVE DivAt(_, _, _, _, _)
DivAt(a, b, i, rem, quot) ==
  IF i = 0 THEN <<MagNorm(quot), rem>>
  ELSE The({The({DivAt(a, b, i - 1, MagSub(r, MagMul(b, <<q>>, 0)), <<q>> \o qs) :
                 q \in {QDigit(r, b, The({IF g < Base THEN g ELSE Base - 1 :
                           g \in {(Limb(r, Len(b) + 1) * Base + Limb(r, Len(b)))
                                    \div b[Len(b)]}}))}}) :
            r \in {MagNorm(<<a[i]>> \o rem)}, qs \in {quot}})

\* a / b rounded to nearest (half up), b # 0: both are scaled to bring the high
\* limb of b to Base / 2 or more
MagDivRound(a, b) ==
  The({The({The({IF MagCmp(MagAdd(qr[2], qr[2]), vn) >= 0 THEN MagAdd(qr[1], <<1>>)
                 ELSE qr[1] : qr \in {DivAt(un, vn, Len(un), <<>>, <<>>)}}) :
            un \in {MagMul(a, <<d>>, 0)}, vn \in {MagMul(b, <<d>>, 0)}}) :
       d \in {Base \div (b[Len(b)] + 1)}})

Mk(neg, mag) == The({[neg |-> neg /\ m # <<>>, mag |-> m] : m \in {mag}})

Zero == Mk(FALSE, <<>>)

RECURSIVE NatMag(_)
NatMag(n) == IF n = 0 THEN <<>> ELSE <<n % Base>> \o NatMag(n \div Base)

\* the integer n
Int2Num(n) == Mk(n < 0, MagShiftLeft(NatMag(IF n < 0 THEN -n ELSE n), FracLimbs))

\* the decimal literal n / 10^4, n >= 0
Lit(n) == Mk(FALSE, MagShiftLeft(NatMag(n), FracLimbs - 1))

\* NaN and the infinities
NaN == [nan |-> TRUE]

Infinity(neg) == [inf |-> TRUE, neg |-> neg]

IsNaN(a) == "nan" \in DOMAIN a

IsInfinite(a) == "inf" \in DOMAIN a

IsFinite(a) == "mag" \in DOMAIN a

\* a === b
StrictEq(a, b) == ~IsNaN(a) /\ a = b

Neg(a) ==
  The({IF IsFinite(u) THEN Mk(~u.neg, u.mag)
       ELSE IF IsNaN(u) THEN NaN
       ELSE Infinity(~u.neg) : u \in {a}})

Add(a, b) ==
  The({IF IsFinite(u) /\ IsFinite(v)
       THEN IF u.neg = v.neg THEN Mk(u.neg, MagAdd(u.mag, v.mag))
            ELSE The({Mk(w[1].neg, MagSub(w[1].mag, w[2].mag)) :
                      w \in {IF MagCmp(u.mag, v.mag) >= 0 THEN <<u, v>> ELSE <<v, u>>}})
       ELSE IF IsNaN(u) \/ IsNaN(v) \/ (IsInfinite(u) /\ IsInfinite(v) /\ u.neg # v.neg) THEN NaN
       ELSE IF IsInfinite(u) THEN u
       ELSE v : u \in {a}, v \in {b}})

Sub(a, b) == Add(a, Neg(b))

Mul(a, b) ==
  The({IF IsFinite(u) /\ IsFinite(v) THEN Mk(u.neg # v.neg, MagMul(u.mag, v.mag, FracLimbs))
       ELSE IF IsNaN(u) \/ IsNaN(v) \/ u = Zero \/ v = Zero THEN NaN
       ELSE Infinity(u.neg # v.neg) : u \in {a}, v \in {b}})

\* a / b; the zero of this model has no sign, so x / 0 has the sign of x
Div(a, b) ==
  The({IF IsFinite(u) /\ IsFinite(v)
       THEN IF v # Zero
            THEN Mk(u.neg # v.neg, MagDivRound(MagShiftLeft(u.mag, FracLimbs), v.mag))
            ELSE IF u = Zero THEN NaN
            ELSE Infinity(u.neg)
       ELSE IF IsNaN(u) \/ IsNaN(v) \/ (IsInfinite(u) /\ IsInfinite(v)) THEN NaN
       ELSE IF IsInfinite(u) THEN Infinity(u.neg # v.neg)
       ELSE Zero : u \in {a}, v \in {b}})

\* a < b
Less(a, b) ==
  The({IF IsFinite(u) /\ IsFinite(v)
       THEN IF u.neg # v.neg THEN u.neg ELSE (MagCmp(u.mag, v.mag) = (IF u.neg THEN 1 ELSE -1))
       ELSE IF IsNaN(u) \/ IsNaN(v) \/ u = v THEN FALSE
       ELSE IF IsInfinite(u) THEN u.neg
       ELSE ~v.neg : u \in {a}, v \in {b}})

Abs(a) ==
  The({IF IsFinite(u) THEN Mk(FALSE, u.mag)
       ELSE IF IsNaN(u) THEN NaN
       ELSE Infinity(FALSE) : u \in {a}})

\* the integer nearest to a, as a number
Round(a) ==
  The({IF IsFinite(u) THEN Mk(u.neg, MagShiftLeft(MagMul(u.mag, <<1>>, FracLimbs), FracLimbs))
       ELSE u : u \in {a}})

(***************************************************************************)
(* Math.sin, Math.cos: argument reduction to [-pi/2, pi/2] and the Taylor  *)
(* series, summed until the term rounds to zero.                           *)
(***************************************************************************)
PiDigits == <<2643, 3846, 7932, 3589, 9265, 1415, 3>>

Pi == Mk(FALSE, MagMul(PiDigits, <<1>>, 6 - FracLimbs))

HalfPi == Div(Pi, Int2Num(2))

TwoPi == Add(Pi, Pi)

InvTwoPiDigits == <<3577, 8953, 3091, 5494, 1591>>

\* 1 / (2 pi)
InvTwoPi == Mk(FALSE, MagMul(InvTwoPiDigits, <<1>>, 5 - FracLimbs))

\* 1 / (2k (2k + 1)): the ratio of the series' term of degree 2k + 1 to r^2 times
\* the term before it
SinCoef == [k \in 1..12 |-> Div(Int2Num(1), Int2Num((2 * k) * (2 * k + 1)))]

\* term + the terms after it; term is the one of degree 2n - 1
RECURSIVE SinSeries(_, _, _)
SinSeries(term, r2, n) ==
  The({IF t = Zero \/ k > 12 THEN t
       ELSE Add(t, SinSeries(Neg(Mul(Mul(t, q), SinCoef[k])), q, k + 1)) :
       t \in {term}, q \in {r2}, k \in {n}})

Sin(a) ==
  The({IF ~IsFinite(u) THEN NaN ELSE
       The({The({SinSeries(r1, Mul(r1, r1), 1) :
                 r1 \in {IF Less(HalfPi, r) THEN Sub(Pi, r)
                         ELSE IF Less(r, Neg(HalfPi)) THEN Sub(Neg(Pi), r)
                         ELSE r}}) :
            r \in {IF Less(Pi, Abs(u)) THEN Sub(u, Mul(Round(Mul(u, InvTwoPi)), TwoPi))
                   ELSE u}}) :
       u \in {a}})

Cos(a) == Sin(Add(a, HalfPi))

(***************************************************************************)
(* App: constants and surface presets.                                     *)
(***************************************************************************)
DEFAULT_LEARNING_RATE == Lit(80)

DEFAULT_STEPS_PER_SECOND == Int2Num(40)

\* the presets of SURFACE_CONFIGS explored: the default and one more
Surfaces == {"global-minimum", "saddle-point"}

\* SURFACE_CONFIGS[s].fn(x0, y0)
fn(s, x0, y0) ==
  The({CASE s = "global-minimum" ->
              Add(Add(Mul(Mul(Lit(5000), x), x), Mul(Mul(Lit(2000), y), y)),
                  Mul(Mul(Lit(5000), Sin(x)), Cos(y)))
         [] s = "saddle-point" -> Sub(Mul(y, y), Mul(x, x)) :
       x \in {x0}, y \in {y0}})

\* SURFACE_CONFIGS[s].startPosition
SurfaceStart(s) ==
  CASE s = "global-minimum" -> <<Int2Num(4), Int2Num(3)>>
    [] s = "saddle-point" -> <<Int2Num(1), Int2Num(1)>>

\* SURFACE_CONFIGS[s].xRange, SURFACE_CONFIGS[s].yRange
SurfaceXRange(s) ==
  CASE s = "global-minimum" -> <<Int2Num(-6), Int2Num(6)>>
    [] s = "saddle-point" -> <<Int2Num(-2), Int2Num(2)>>

SurfaceYRange(s) ==
  CASE s = "global-minimum" -> <<Int2Num(-6), Int2Num(6)>>
    [] s = "saddle-point" -> <<Int2Num(-2), Int2Num(2)>>

\* further values of the fn prop (type SurfaceFn), supplied by a test scenario:
\* 0.5 x^2 + 0.2 y^2, x^2 + y^2 and a constant
TestFields == {"quadratic", "paraboloid", "flat"}

\* fields for the marker alone: 100 |x|, whose slope does not shrink, and
\* y / x and y / x + x^2, which have a pole on the line x = 0
SteepFields == {"vee"}
PoleFields == {"pole", "poleBowl"}

TestFn(s, x0, y0) ==
  The({CASE s = "quadratic" -> Add(Mul(Mul(Lit(5000), x), x), Mul(Mul(Lit(2000), y), y))
         [] s = "paraboloid" -> Add(Mul(x, x), Mul(y, y))
         [] s = "flat" -> Int2Num(1)
         [] s = "vee" -> Mul(Int2Num(100), Abs(x))
         [] s = "pole" -> Div(y, x)
         [] s = "poleBowl" -> Add(Div(y, x), Mul(x, x)) : x \in {x0}, y \in {y0}})

\* a call f(x, y) of the function f passed as the fn prop
Call(f, x, y) == IF f \in Surfaces THEN fn(f, x, y) ELSE TestFn(f, x, y)

NoPosition == <<>>

(***************************************************************************)
(* DescentMarker: gradient estimator and the interval's update.            *)
(***************************************************************************)
h == Lit(10)

\* variant of grad: one-sided differences (f(x + h, y) - f(x, y)) / h
gradForward(f, x0, y0) ==
  The({<<Div(Sub(Call(f, Add(x, h), y), c), h), Div(Sub(Call(f, x, Add(y, h)), c), h)>> :
       x \in {x0}, y \in {y0}, c \in {Call(f, x0, y0)}})

\* grad(x0, y0), memoised on the fn prop f: central differences.  z holds
\* fn(x + h, y), fn(x - h, y), fn(x, y + h), fn(x, y - h)
grad(f, x0, y0) ==
  The({The({The({<<g[1], g[2]>> :
                 g \in {[i \in 1..2 |-> Div(Sub(z[2 * i - 1], z[2 * i]), Mul(Int2Num(2), h))]}}) :
            z \in {The({<<c[1], c[2], c[3], c[4]>> :
                        c \in {[i \in 1..4 |-> Call(f, at[i][1], at[i][2])]}})}}) :
       at \in {The({<<<<Add(x, h), y>>, <<Sub(x, h), y>>, <<x, Add(y, h)>>, <<x, Sub(y, h)>>>> :
                    x \in {x0}, y \in {y0}})}})

\* variant of Updater: the new x is used to compute the new y
UpdaterSequential(f, lr, p) ==
  The({<<x1, Sub(p[2], Mul(lr, grad(f, x1, p[2])[2]))>> :
       x1 \in {Sub(p[1], Mul(lr, grad(f, p[1], p[2])[1]))}})

\* variant of Updater: the step goes up the gradient
UpdaterAscent(f, lr, p) ==
  The({<<Add(xy[1], Mul(lr, g[1])), Add(xy[2], Mul(lr, g[2]))>> :
       xy \in {p}, g \in {grad(f, p[1], p[2])}})

\* variant of the update: a position that is not finite is put back to the
\* origin
UpdaterSanitised(f, lr, p) ==
  IF IsFinite(p[1]) /\ IsFinite(p[2])
  THEN The({<<Sub(xy[1], Mul(lr, g[1])), Sub(xy[2], Mul(lr, g[2]))>> :
            xy \in {p}, g \in {grad(f, p[1], p[2])}})
  ELSE <<Zero, Zero>>

\* the updater passed to setXy by an interval created with (f, lr), applied to
\* the committed position p
Updater(f, lr, p) ==
  The({<<Sub(xy[1], Mul(lr, g[1])), Sub(xy[2], Mul(lr, g[2]))>> :
       xy \in {p}, g \in {grad(f, p[1], p[2])}})

(***************************************************************************)
(* SurfaceMesh.handlePointerDown: world <-> mesh-local coordinates.  The   *)
(* mesh sits unrotated in a group rotated by [-pi/32, pi/32, 0] (Euler     *)
(* order XYZ): world = R local and local = R^T world with R = Rx(a) Ry(b). *)
(***************************************************************************)
GroupRotation == <<Neg(Div(Pi, Int2Num(32))), Div(Pi, Int2Num(32)), Zero>>

\* the rows of R
MatrixWorld ==
  The({<<<<cb, Zero, sb>>,
         <<Mul(sa, sb), ca, Neg(Mul(sa, cb))>>,
         <<Neg(Mul(ca, sb)), sa, Mul(ca, cb)>>>> :
       sa \in {Sin(GroupRotation[1])}, ca \in {Cos(GroupRotation[1])},
       sb \in {Sin(GroupRotation[2])}, cb \in {Cos(GroupRotation[2])}})

\* the rows of the inverse of R
MatrixWorldInverse ==
  The({<<<<m[1][1], m[2][1], m[3][1]>>, <<m[1][2], m[2][2], m[3][2]>>,
         <<m[1][3], m[2][3], m[3][3]>>>> : m \in {MatrixWorld}})

\* Vector3.applyMatrix4 for a rotation m
ApplyMatrix(m, v) ==
  The({<<r[1], r[2], r[3]>> :
       r \in {[i \in 1..3 |->
                 Add(Add(Mul(m[i][1], v[1]), Mul(m[i][2], v[2])), Mul(m[i][3], v[3]))]}})

\* Object3D.localToWorld: the world point of the mesh-local point v
LocalToWorld(v) == ApplyMatrix(MatrixWorld, v)

\* container.worldToLocal(point.clone())
WorldToLocal(w) == ApplyMatrix(MatrixWorldInverse, w)

\* zScale={0.2} passed to SurfaceMesh and DescentMarker
AppZScale == Lit(2000)

\* event.point of a pointer event whose ray hits the mesh of surface s above
\* the mesh-local plane point c
HitPoint(s, c) == LocalToWorld(<<c[1], Mul(fn(s, c[1], c[2]), AppZScale), c[2]>>)

\* event.point of an event whose ray misses the mesh
NoPoint == <<>>

\* Number(v.toFixed(3))
ToFixed3(v) == Div(Round(Mul(v, Int2Num(1000))), Int2Num(1000))

\* variant of Along: the axis is divided by the number of samples, steps + 1
AlongOverCount(range, i, steps) ==
  Add(range[1], Mul(Sub(range[2], range[1]), Div(Int2Num(i), Int2Num(steps + 1))))

(***************************************************************************)
(* SurfaceMesh: the geometry memo.  p is the props record.                 *)
(***************************************************************************)
\* yMin + (yMax - yMin) * (iy / steps), and the same along x
Along(range, i, steps) ==
  Add(range[1], Mul(Sub(range[2], range[1]), Div(Int2Num(i), Int2Num(steps))))

\* variant of SampleRow: the loop stops before ix = steps
RECURSIVE SampleRowExclusive(_, _, _)
SampleRowExclusive(p, y, ix) ==
  IF ix < p.steps
  THEN The({<<<<x, Mul(Call(p.fn, x, y), p.zScale), y>>>> \o SampleRowExclusive(p, y, ix + 1) :
            x \in {Along(p.xRange, ix, p.steps)}})
  ELSE <<>>

\* the inner sampling loop from ix on: the Vector3(x, z, y) pushed to positions
RECURSIVE SampleRow(_, _, _)
SampleRow(p, y, ix) ==
  IF ix <= p.steps
  THEN The({<<<<x, Mul(Call(p.fn, x, y), p.zScale), y>>>> \o SampleRow(p, y, ix + 1) :
            x \in {Along(p.xRange, ix, p.steps)}})
  ELSE <<>>

\* the outer sampling loop from iy on
RECURSIVE SampleRows(_, _)
SampleRows(p, iy) ==
  IF iy <= p.steps
  THEN The({SampleRow(p, y, 0) : y \in {Along(p.yRange, iy, p.steps)}}) \o SampleRows(p, iy + 1)
  ELSE <<>>

\* <<zMin, zMax>> after positions i.. are seen, zr being their values before
RECURSIVE ZRange(_, _, _)
ZRange(positions, i, zr) ==
  IF i > Len(positions) THEN zr
  ELSE The({ZRange(positions, i + 1,
                   <<IF Less(z, r[1]) THEN z ELSE r[1], IF Less(r[2], z) THEN z ELSE r[2]>>) :
            z \in {positions[i][2]}, r \in {zr}})

\* new Color("#00ff66"), new Color("#ffff00"), new Color("#ff0000"): the
\* channels of the hex triplet over 255
colorGreen == <<Zero, Int2Num(1), Lit(4000)>>

colorYellow == <<Int2Num(1), Int2Num(1), Zero>>

colorRed == <<Int2Num(1), Zero, Zero>>

\* c.clone().lerp(d, alpha)
Lerp(c, d, alpha) ==
  The({<<r[1], r[2], r[3]>> : r \in {[i \in 1..3 |-> Add(c[i], Mul(Sub(d[i], c[i]), alpha))]}})

\* variant of RampT: a flat field is put at the low end of the ramp
RampTFlatLow(z, zr) ==
  IF StrictEq(zr[2], zr[1]) THEN Zero ELSE Div(Sub(z, zr[1]), Sub(zr[2], zr[1]))

\* the normalised height t of a vertex at height z
RampT(z, zr) ==
  IF StrictEq(zr[2], zr[1]) THEN Lit(5000) ELSE Div(Sub(z, zr[1]), Sub(zr[2], zr[1]))

\* variant of VertexColor: the two segments are taken in the other order
VertexColorSwapped(z, zr) ==
  The({IF Less(t, Lit(5000)) THEN Lerp(colorYellow, colorGreen, Div(t, Lit(5000)))
       ELSE Lerp(colorRed, colorYellow, Div(Sub(t, Lit(5000)), Lit(5000))) :
       t \in {RampT(z, zr)}})

\* the colour c of a vertex at height z
VertexColor(z, zr) ==
  The({IF Less(t, Lit(5000)) THEN Lerp(colorRed, colorYellow, Div(t, Lit(5000)))
       ELSE Lerp(colorYellow, colorGreen, Div(Sub(t, Lit(5000)), Lit(5000))) :
       t \in {RampT(z, zr)}})

\* positions.forEach from position i on: <<vertices, colors>>
RECURSIVE PushVertices(_, _, _)
PushVertices(positions, i, zr) ==
  IF i > Len(positions) THEN <<<<>>, <<>>>>
  ELSE The({<<positions[i] \o rest[1], VertexColor(positions[i][2], zr) \o rest[2]>> :
            rest \in {PushVertices(positions, i + 1, zr)}})

\* variant: the row stride is steps instead of gridWidth = steps + 1
RECURSIVE IndexRowSteps(_, _, _)
IndexRowSteps(steps, y, x) ==
  IF x < steps
  THEN The({<<a, a + steps, a + 1, a + 1, a + steps, a + steps + 1>> :
            a \in {y * steps + x}}) \o IndexRowSteps(steps, y, x + 1)
  ELSE <<>>

\* the inner index loop from x on
RECURSIVE IndexRow(_, _, _)
IndexRow(steps, y, x) ==
  IF x < steps
  THEN The({<<a, a + (steps + 1), a + 1, a + 1, a + (steps + 1), a + (steps + 1) + 1>> :
            a \in {y * (steps + 1) + x}}) \o IndexRow(steps, y, x + 1)
  ELSE <<>>

\* the outer index loop from y on
RECURSIVE IndexRows(_, _)
IndexRows(steps, y) ==
  IF y < steps THEN IndexRow(steps, y, 0) \o IndexRows(steps, y + 1) ELSE <<>>

\* the body of the geometry useMemo: the arrays given to the position and
\* color attributes and to setIndex
Geometry(p) ==
  The({The({[vertices |-> vc[1], colors |-> vc[2], indices |-> IndexRows(p.steps, 0)] :
            vc \in {PushVertices(positions, 1,
                                 ZRange(positions, 1, <<Infinity(FALSE), Infinity(TRUE)>>))}}) :
       positions \in {SampleRows(p, 0)}})

\* whether the memo's dependencies [fn, xRange, yRange, steps, zScale] differ
MeshDepsChanged(p, q) ==
  \/ p.alloc # q.alloc
  \/ p.fn # q.fn
  \/ p.xRange # q.xRange
  \/ p.yRange # q.yRange
  \/ p.steps # q.steps
  \/ p.zScale # q.zScale

(***************************************************************************)
(* Bounds and input sets of the exploration.                               *)
(***************************************************************************)
MaxTicks == 2

MaxRestarts == 2

MaxSteps == 3

\* values delivered by the learning-rate slider: 0.008, 0.05 and 0.05 with
\* noise in the last place
LrInputs == {Lit(80), Lit(500), Add(Lit(500), Mk(FALSE, <<1>>))}

\* values delivered by the steps-per-second slider
SpsInputs == {Int2Num(40), Int2Num(120)}

\* plane points under the pointer of a click on the surface
ClickPoints == {<<Int2Num(-1), Int2Num(2)>>}

\* the props a SurfaceMesh is rendered with
MeshRanges == {SurfaceXRange(s) : s \in Surfaces} \cup {SurfaceYRange(s) : s \in Surfaces}

MeshProps ==
  [fn : Surfaces \cup TestFields, xRange : MeshRanges, yRange : MeshRanges, steps : 1..MaxSteps,
   zScale : {AppZScale, Int2Num(1)}, alloc : {0}]

\* props with a malformed domain: xMin > xMax, yMin = yMax, steps = 0 and
\* steps < 0
MalformedMeshProps ==
  {[fn |-> "paraboloid", xRange |-> <<Int2Num(2), Int2Num(-2)>>,
    yRange |-> <<Int2Num(-2), Int2Num(2)>>, steps |-> 2, zScale |-> AppZScale, alloc |-> 0],
   [fn |-> "paraboloid", xRange |-> <<Int2Num(-2), Int2Num(2)>>,
    yRange |-> <<Int2Num(2), Int2Num(2)>>, steps |-> 2, zScale |-> AppZScale, alloc |-> 0],
   [fn |-> "paraboloid", xRange |-> <<Int2Num(-2), Int2Num(2)>>,
    yRange |-> <<Int2Num(-2), Int2Num(2)>>, steps |-> 0, zScale |-> AppZScale, alloc |-> 0],
   [fn |-> "paraboloid", xRange |-> <<Int2Num(-2), Int2Num(2)>>,
    yRange |-> <<Int2Num(-2), Int2Num(2)>>, steps |-> -1, zScale |-> AppZScale, alloc |-> 0]}

\* the values of event.point over the mesh of each surface
EventPoints == [s \in Surfaces |-> {HitPoint(s, c) : c \in ClickPoints} \cup {NoPoint}]

(***************************************************************************)
(* State.                                                                  *)
(***************************************************************************)
VARIABLES
  learningRate,        \* App: useState(DEFAULT_LEARNING_RATE)
  stepsPerSecond,      \* App: useState(DEFAULT_STEPS_PER_SECOND)
  restartKey,          \* App: useState(0)
  selectedSurface,     \* App: useState("global-minimum")
  customStartPosition, \* App: useState(null)
  pc,                  \* where the React root is in its life and in a commit
  props,               \* per DescentMarker slot: the props of the last render
  marker,              \* per DescentMarker slot: the mounted instance and its xy
  timers,              \* the intervals registered by setInterval and not cleared
  last,                \* the most recent operation
  mesh,                \* SurfaceMesh: its props and the geometry memo
  schedule             \* the time in ms, and when the intervals are due

vars == <<learningRate, stepsPerSecond, restartKey, selectedSurface, customStartPosition,
          pc, props, marker, timers, last, mesh, schedule>>

appVars == <<learningRate, stepsPerSecond, restartKey, selectedSurface, customStartPosition>>

Slots == {1, 2}

\* alloc names the render in which the object-valued props (the fn closure,
\* the range arrays) were created, 0 for objects created at module level:
\* Object.is holds of two such props iff alloc and value agree
NoProps ==
  [key |-> -1, fn |-> "", start |-> NoPosition, lr |-> Zero, stepsPerSecond |-> Zero,
   alloc |-> 0]

NoMarker ==
  [mounted |-> FALSE, key |-> -1, origin |-> NoPosition, xy |-> NoPosition, timer |-> 0,
   ticks |-> 0]

NoMesh == <<>>

\* where time is not followed
NoSchedule == <<>>

Op(name, from) == [op |-> name, slot |-> 0, from |-> from, lr |-> Zero, intervalMs |-> Zero]

(***************************************************************************)
(* DescentMarker under React: mount, effect, cleanup.                      *)
(***************************************************************************)
\* an id setInterval has not handed out among the live intervals
FreshId(T) == CHOOSE i \in 1..(Cardinality(T) + 1) : \A t \in T : t.id # i

\* variant of SetInterval: the closure's step is scaled by the period in seconds
SetIntervalRateScaled(T, slot, p) ==
  T \cup {[id |-> FreshId(T), slot |-> slot, key |-> p.key, fn |-> p.fn,
           lr |-> Mul(p.lr, Div(Int2Num(40), p.stepsPerSecond)),
           intervalMs |-> Div(Int2Num(1000), p.stepsPerSecond)]}

\* the effect body: setInterval(() => setXy(updater), 1000 / stepsPerSecond)
SetInterval(T, slot, p) ==
  T \cup {[id |-> FreshId(T), slot |-> slot, key |-> p.key, fn |-> p.fn, lr |-> p.lr,
           intervalMs |-> Div(Int2Num(1000), p.stepsPerSecond)]}

\* variant of ClearInterval: the cleanup clears nothing
ClearIntervalNone(T, id) == T

\* the effect's cleanup: clearInterval(id)
ClearInterval(T, id) == {t \in T : t.id # id}

\* the instance after its effect has run against the intervals T
RunEffect(m, T) == [m EXCEPT !.timer = FreshId(T)]

\* a new instance: useState(start); origin keeps the initial value
NewInstance(p) ==
  [mounted |-> TRUE, key |-> p.key, origin |-> p.start, xy |-> p.start, timer |-> 0, ticks |-> 0]

\* variant of DepsChanged: the dependency list is [grad] only
DepsChangedFnOnly(p, q) == p.alloc # q.alloc \/ p.fn # q.fn

\* whether the effect's dependencies [grad, lr, stepsPerSecond] differ
\* (grad is memoised on fn)
DepsChanged(p, q) ==
  p.alloc # q.alloc \/ p.fn # q.fn \/ p.lr # q.lr \/ p.stepsPerSecond # q.stepsPerSecond

\* variant of Commit: a changed key does not remount the instance
CommitIgnoreKey(slot, m, p, q, T) ==
  LET remount == ~m.mounted
      T1 == IF m.mounted THEN ClearInterval(T, m.timer) ELSE T
  IN  IF remount \/ m.key # q.key \/ DepsChanged(p, q)
      THEN <<RunEffect(IF remount THEN NewInstance(q) ELSE [m EXCEPT !.key = q.key], T1),
             SetInterval(T1, slot, q), remount>>
      ELSE <<m, T, FALSE>>

\* variant of Commit: changed dependencies run the cleanup but not the effect
CommitNoRearm(slot, m, p, q, T) ==
  LET remount == ~m.mounted \/ m.key # q.key
      T1 == IF m.mounted THEN ClearInterval(T, m.timer) ELSE T
  IN  IF remount
      THEN <<RunEffect(NewInstance(q), T1), SetInterval(T1, slot, q), TRUE>>
      ELSE IF DepsChanged(p, q) THEN <<[m EXCEPT !.timer = 0], T1, FALSE>>
      ELSE <<m, T, FALSE>>

\* variant of Commit: a changed key mounts the new instance without running
\* the cleanup of the old one
CommitKeepOld(slot, m, p, q, T) ==
  LET remount == ~m.mounted \/ m.key # q.key
      T1 == IF m.mounted /\ ~remount THEN ClearInterval(T, m.timer) ELSE T
  IN  IF remount \/ DepsChanged(p, q)
      THEN <<RunEffect(IF remount THEN NewInstance(q) ELSE m, T1), SetInterval(T1, slot, q),
             remount>>
      ELSE <<m, T, FALSE>>

\* React commits the element <DescentMarker key=q.key ...q /> into a slot that
\* holds instance m rendered with p: a changed key unmounts m (its cleanup
\* runs) and mounts a new instance; changed dependencies run the cleanup and
\* the effect again.  Result: <<instance, intervals, remounted>>
Commit(slot, m, p, q, T) ==
  LET remount == ~m.mounted \/ m.key # q.key
      T1 == IF m.mounted THEN ClearInterval(T, m.timer) ELSE T
  IN  IF remount \/ DepsChanged(p, q)
      THEN <<RunEffect(IF remount THEN NewInstance(q) ELSE m, T1), SetInterval(T1, slot, q),
             remount>>
      ELSE <<m, T, FALSE>>

(***************************************************************************)
(* App: render and event handlers.  The App's DescentMarker is slot 1.     *)
(***************************************************************************)
\* startPosition = customStartPosition || currentSurface.startPosition
StartPosition(surface, custom) == IF custom # NoPosition THEN custom ELSE SurfaceStart(surface)

\* variant of AppElement: the key prop is constant
AppElementFixedKey(lr, sps, key, surface, custom) ==
  [key |-> 0, fn |-> surface, start |-> StartPosition(surface, custom), lr |-> lr,
   stepsPerSecond |-> sps, alloc |-> 0]

\* the element <DescentMarker key={restartKey} fn start lr stepsPerSecond />
AppElement(lr, sps, key, surface, custom) ==
  [key |-> key, fn |-> surface, start |-> StartPosition(surface, custom), lr |-> lr,
   stepsPerSecond |-> sps, alloc |-> 0]

\* App re-renders with the given state and React commits the result
\* (strict: whether <StrictMode> double-invokes the effects of a newly mounted
\* component, as the development build does and the production build does not)
AppCommit(name, strict, lr, sps, key, surface, custom) ==
  LET q == AppElement(lr, sps, key, surface, custom)
      c == Commit(1, marker[1], props[1], q, timers)
  IN  /\ learningRate' = lr
      /\ stepsPerSecond' = sps
      /\ restartKey' = key
      /\ selectedSurface' = surface
      /\ customStartPosition' = custom
      /\ props' = [props EXCEPT ![1] = q]
      /\ marker' = [marker EXCEPT ![1] = c[1]]
      /\ timers' = c[2]
      /\ pc' = IF c[3] /\ strict THEN "strictCleanup" ELSE "idle"
      /\ last' = Op(name, marker[1].xy)
      /\ UNCHANGED <<mesh, schedule>>

\* createRoot(...).render(<StrictMode>...<App />...</StrictMode>)
Mount(strict) ==
  /\ pc = "init"
  /\ AppCommit("Mount", strict, learningRate, stepsPerSecond, restartKey, selectedSurface,
               customStartPosition)

\* StrictMode, development: the cleanup of the effect that just ran
StrictCleanup ==
  /\ pc = "strictCleanup"
  /\ timers' = ClearInterval(timers, marker[1].timer)
  /\ marker' = [marker EXCEPT ![1].timer = 0]
  /\ pc' = "strictEffect"
  /\ UNCHANGED <<schedule, appVars, props, last, mesh>>

\* StrictMode, development: the effect runs a second time
StrictEffect ==
  /\ pc = "strictEffect"
  /\ timers' = SetInterval(timers, 1, props[1])
  /\ marker' = [marker EXCEPT ![1] = RunEffect(marker[1], timers)]
  /\ pc' = "idle"
  /\ UNCHANGED <<schedule, appVars, props, last, mesh>>

\* the interval t fires: setXy(updater)
Tick(t) ==
  /\ pc = "idle"
  /\ t \in timers
  /\ marker[t.slot].ticks < MaxTicks
  /\ marker' = IF marker[t.slot].mounted /\ marker[t.slot].key = t.key
               THEN [marker EXCEPT ![t.slot].xy = Updater(t.fn, t.lr, marker[t.slot].xy),
                                   ![t.slot].ticks = @ + 1]
               ELSE marker
  /\ last' = [op |-> "Tick", slot |-> t.slot, from |-> marker[t.slot].xy, lr |-> t.lr,
              intervalMs |-> t.intervalMs]
  /\ UNCHANGED <<schedule, appVars, pc, props, timers, mesh>>

\* Restart button onClick
Restart(strict) ==
  /\ pc = "idle"
  /\ restartKey < MaxRestarts
  /\ AppCommit("Restart", strict, learningRate, stepsPerSecond, restartKey + 1, selectedSurface,
               customStartPosition)

\* variant: the selection leaves the custom start in place
SelectSurfaceKeepCustom(strict, s) ==
  /\ pc = "idle"
  /\ restartKey < MaxRestarts
  /\ s # selectedSurface
  /\ AppCommit("SelectSurface", strict, learningRate, stepsPerSecond, restartKey + 1, s,
               customStartPosition)

\* surface <select> onChange
SelectSurface(strict, s) ==
  /\ pc = "idle"
  /\ restartKey < MaxRestarts
  /\ s # selectedSurface
  /\ AppCommit("SelectSurface", strict, learningRate, stepsPerSecond, restartKey + 1, s, NoPosition)

\* Reset to Default button onClick; the button exists only with a custom start
ResetToDefault(strict) ==
  /\ pc = "idle"
  /\ restartKey < MaxRestarts
  /\ customStartPosition # NoPosition
  /\ AppCommit("ResetToDefault", strict, learningRate, stepsPerSecond, restartKey + 1,
               selectedSurface, NoPosition)

\* variant: the planar coordinates are read from the world-space point
PointerDownWorld(strict, ctrlKey, point) ==
  /\ pc = "idle"
  /\ IF ctrlKey /\ point # NoPoint
     THEN /\ restartKey < MaxRestarts
          /\ AppCommit("SurfaceClick", strict, learningRate, stepsPerSecond,
                       restartKey + 1, selectedSurface, <<point[1], point[3]>>)
     ELSE /\ last' = Op("PointerDown", marker[1].xy)
          /\ UNCHANGED <<schedule, appVars, pc, props, marker, timers, mesh>>

\* SurfaceMesh.handlePointerDown with App's onSurfaceClick, for an event with
\* the given ctrlKey and point; without Ctrl or without a point it only logs
PointerDown(strict, ctrlKey, point) ==
  /\ pc = "idle"
  /\ IF ctrlKey /\ point # NoPoint
     THEN LET local == WorldToLocal(point)
          IN  /\ restartKey < MaxRestarts
              /\ AppCommit("SurfaceClick", strict, learningRate, stepsPerSecond,
                           restartKey + 1, selectedSurface, <<local[1], local[3]>>)
     ELSE /\ last' = Op("PointerDown", marker[1].xy)
          /\ UNCHANGED <<schedule, appVars, pc, props, marker, timers, mesh>>

\* learning-rate slider onValueChange
SetLearningRate(v) ==
  /\ pc = "idle"
  /\ AppCommit("SetLearningRate", FALSE, ToFixed3(v), stepsPerSecond, restartKey, selectedSurface,
               customStartPosition)

\* steps-per-second slider onValueChange
SetStepsPerSecond(v) ==
  /\ pc = "idle"
  /\ AppCommit("SetStepsPerSecond", FALSE, learningRate, v, restartKey, selectedSurface,
               customStartPosition)

\* the root is torn down: every effect's cleanup runs
Unmount ==
  /\ pc = "idle"
  /\ timers' = ClearInterval(timers, marker[1].timer)
  /\ marker' = [marker EXCEPT ![1] = NoMarker]
  /\ pc' = "unmounted"
  /\ last' = Op("Unmount", marker[1].xy)
  /\ UNCHANGED <<schedule, appVars, props, mesh>>

Init ==
  /\ learningRate = DEFAULT_LEARNING_RATE
  /\ stepsPerSecond = DEFAULT_STEPS_PER_SECOND
  /\ restartKey = 0
  /\ selectedSurface = "global-minimum"
  /\ customStartPosition = NoPosition
  /\ pc = "init"
  /\ props = <<NoProps, NoProps>>
  /\ marker = <<NoMarker, NoMarker>>
  /\ timers = {}
  /\ last = Op("none", NoPosition)
  /\ mesh = NoMesh
  /\ schedule = NoSchedule

Next ==
  \/ \E strict \in BOOLEAN : Mount(strict)
  \/ StrictCleanup
  \/ StrictEffect
  \/ \E t \in timers : Tick(t)
  \/ \E strict \in BOOLEAN : Restart(strict)
  \/ \E strict \in BOOLEAN, s \in Surfaces : SelectSurface(strict, s)
  \/ \E strict \in BOOLEAN : ResetToDefault(strict)
  \/ \E strict \in BOOLEAN, ctrlKey \in BOOLEAN, point \in EventPoints[selectedSurface] :
       PointerDown(strict, ctrlKey, point)
  \/ \E v \in LrInputs : SetLearningRate(v)
  \/ \E v \in SpsInputs : SetStepsPerSecond(v)
  \/ Unmount

Spec == Init /\ [][Next]_vars

(***************************************************************************)
(* Two DescentMarker instances rendered side by side by a harness, with    *)
(* the same fn, start and lr; the second may have another stepsPerSecond.  *)
(***************************************************************************)
\* the fields and start points of the runs
MarkerRuns ==
  {<<"global-minimum", <<Int2Num(4), Int2Num(3)>>>>,
   <<"saddle-point", <<Int2Num(1), Int2Num(1)>>>>,
   <<"quadratic", <<Int2Num(4), Int2Num(3)>>>>,
   <<"paraboloid", <<Int2Num(1), Int2Num(1)>>>>,
   <<"flat", <<Int2Num(1), Int2Num(1)>>>>}

\* the learning rates of the runs: 0.008 and the component's default 0.05
MarkerLrs == {Lit(80), Lit(500)}

InitMarker ==
  /\ learningRate = DEFAULT_LEARNING_RATE
  /\ stepsPerSecond = DEFAULT_STEPS_PER_SECOND
  /\ restartKey = 0
  /\ selectedSurface = "global-minimum"
  /\ customStartPosition = NoPosition
  /\ pc = "idle"
  /\ \E run \in MarkerRuns, lr \in MarkerLrs, sps \in SpsInputs :
       LET qA == [key |-> 0, fn |-> run[1], start |-> run[2], lr |-> lr,
                  stepsPerSecond |-> DEFAULT_STEPS_PER_SECOND, alloc |-> 0]
           qB == [qA EXCEPT !.stepsPerSecond = sps]
           cA == Commit(1, NoMarker, NoProps, qA, {})
           cB == Commit(2, NoMarker, NoProps, qB, cA[2])
       IN  /\ props = <<qA, qB>>
           /\ marker = <<cA[1], cB[1]>>
           /\ timers = cB[2]
  /\ last = Op("none", NoPosition)
  /\ mesh = NoMesh
  /\ schedule = NoSchedule

NextMarker == \E t \in timers : Tick(t)

SpecMarker == InitMarker /\ [][NextMarker]_vars

(***************************************************************************)
(* Two DescentMarker instances left running by a harness for as long as    *)
(* they are mounted.  The tick count is kept modulo TickPhases, so that    *)
(* the run is unbounded in time over finitely many states; the positions   *)
(* of these runs recur.                                                    *)
(***************************************************************************)
TickPhases == 2

\* <<fn, start, lr>>: a constant field; the stationary point of the saddle;
\* x^2 + y^2 with lr = 0.5, which is at its minimum after one tick, and with
\* lr = 1, which alternates between (1, 1) and (-1, -1); 100 |x| with
\* lr = 0.05, which alternates between x = 1 and x = -4
LiveRuns ==
  {<<"flat", <<Int2Num(1), Int2Num(1)>>, Lit(500)>>,
   <<"saddle-point", <<Zero, Zero>>, Lit(80)>>,
   <<"paraboloid", <<Int2Num(1), Int2Num(1)>>, Lit(5000)>>,
   <<"paraboloid", <<Int2Num(1), Int2Num(1)>>, Int2Num(1)>>,
   <<"vee", <<Int2Num(1), Int2Num(1)>>, Lit(500)>>}

\* the domain rectangle of the surface the markers of these runs are drawn on
LiveDomain == <<SurfaceXRange("saddle-point"), SurfaceYRange("saddle-point")>>

InitLive ==
  /\ learningRate = DEFAULT_LEARNING_RATE
  /\ stepsPerSecond = DEFAULT_STEPS_PER_SECOND
  /\ restartKey = 0
  /\ selectedSurface = "saddle-point"
  /\ customStartPosition = NoPosition
  /\ pc = "idle"
  /\ \E runA, runB \in LiveRuns :
       LET qA == [key |-> 0, fn |-> runA[1], start |-> runA[2], lr |-> runA[3],
                  stepsPerSecond |-> DEFAULT_STEPS_PER_SECOND, alloc |-> 0]
           qB == [key |-> 0, fn |-> runB[1], start |-> runB[2], lr |-> runB[3],
                  stepsPerSecond |-> DEFAULT_STEPS_PER_SECOND, alloc |-> 0]
           cA == Commit(1, NoMarker, NoProps, qA, {})
           cB == Commit(2, NoMarker, NoProps, qB, cA[2])
       IN  /\ props = <<qA, qB>>
           /\ marker = <<cA[1], cB[1]>>
           /\ timers = cB[2]
  /\ last = Op("none", NoPosition)
  /\ mesh = NoMesh
  /\ schedule = NoSchedule

\* variant of TickAgain: an interval whose tick did not move the position
\* is cleared
TickUntilConverged(t) ==
  /\ pc = "idle"
  /\ t \in timers
  /\ marker' = [marker EXCEPT ![t.slot].xy = Updater(t.fn, t.lr, marker[t.slot].xy),
                              ![t.slot].ticks = (@ + 1) % TickPhases]
  /\ timers' = IF marker'[t.slot].xy = marker[t.slot].xy THEN ClearInterval(timers, t.id)
               ELSE timers
  /\ last' = [op |-> "Tick", slot |-> t.slot, from |-> marker[t.slot].xy, lr |-> t.lr,
              intervalMs |-> t.intervalMs]
  /\ UNCHANGED <<schedule, appVars, pc, props, mesh>>

\* the interval t fires: setXy(updater); nothing in the callback or around
\* it looks at the position, the gradient or the number of ticks taken
TickAgain(t) ==
  /\ pc = "idle"
  /\ t \in timers
  /\ marker' = IF marker[t.slot].mounted /\ marker[t.slot].key = t.key
               THEN [marker EXCEPT ![t.slot].xy = Updater(t.fn, t.lr, marker[t.slot].xy),
                                   ![t.slot].ticks = (@ + 1) % TickPhases]
               ELSE marker
  /\ last' = [op |-> "Tick", slot |-> t.slot, from |-> marker[t.slot].xy, lr |-> t.lr,
              intervalMs |-> t.intervalMs]
  /\ UNCHANGED <<schedule, appVars, pc, props, timers, mesh>>

\* the harness removes the marker of a slot from the tree: its cleanup runs
UnmountMarker(slot) ==
  /\ pc = "idle"
  /\ marker[slot].mounted
  /\ timers' = ClearInterval(timers, marker[slot].timer)
  /\ marker' = [marker EXCEPT ![slot] = NoMarker]
  /\ last' = Op("Unmount", marker[slot].xy)
  /\ UNCHANGED <<schedule, appVars, pc, props, mesh>>

NextLive ==
  \/ \E t \in timers : TickAgain(t)
  \/ \E slot \in Slots : UnmountMarker(slot)

\* an interval that is not cleared goes on firing: the timer of each slot is
\* served again and again while it exists
SpecLive ==
  /\ InitLive
  /\ [][NextLive]_vars
  /\ \A slot \in Slots : WF_vars(\E t \in timers : t.slot = slot /\ TickAgain(t))

(***************************************************************************)
(* A SurfaceMesh and two DescentMarker instances over a field with a pole, *)
(* rendered by a harness that can restart a marker by changing its key.    *)
(***************************************************************************)
\* <<fn, start>>: next to the pole, where one sample of the gradient falls on
\* x = 0, and away from it
PoleRuns ==
  {<<"pole", <<Neg(Lit(10)), Int2Num(1)>>>>,
   <<"pole", <<Neg(Lit(10)), Zero>>>>,
   <<"poleBowl", <<Neg(Lit(10)), Int2Num(1)>>>>,
   <<"poleBowl", <<Lit(10), Int2Num(1)>>>>,
   <<"pole", <<Int2Num(1), Int2Num(1)>>>>}

\* the grid of the harness's mesh has the points (0, -2), (0, 0), (0, 2)
PoleMeshElement(f) ==
  [fn |-> f, xRange |-> <<Int2Num(-2), Int2Num(2)>>, yRange |-> <<Int2Num(-2), Int2Num(2)>>,
   steps |-> 2, zScale |-> AppZScale, alloc |-> 0]

InitPole ==
  /\ learningRate = DEFAULT_LEARNING_RATE
  /\ stepsPerSecond = DEFAULT_STEPS_PER_SECOND
  /\ restartKey = 0
  /\ selectedSurface = "global-minimum"
  /\ customStartPosition = NoPosition
  /\ pc = "idle"
  /\ \E run \in PoleRuns, lr \in MarkerLrs, sps \in SpsInputs :
       LET qA == [key |-> 0, fn |-> run[1], start |-> run[2], lr |-> lr,
                  stepsPerSecond |-> DEFAULT_STEPS_PER_SECOND, alloc |-> 0]
           qB == [qA EXCEPT !.stepsPerSecond = sps]
           cA == Commit(1, NoMarker, NoProps, qA, {})
           cB == Commit(2, NoMarker, NoProps, qB, cA[2])
       IN  /\ props = <<qA, qB>>
           /\ marker = <<cA[1], cB[1]>>
           /\ timers = cB[2]
           /\ mesh = [props |-> PoleMeshElement(run[1]),
                      geometry |-> Geometry(PoleMeshElement(run[1]))]
  /\ last = Op("none", NoPosition)
  /\ schedule = NoSchedule

\* the harness renders the marker of a slot with the next key
RestartMarker(slot) ==
  /\ pc = "idle"
  /\ props[slot].key < MaxRestarts
  /\ LET q == [props[slot] EXCEPT !.key = @ + 1]
         c == Commit(slot, marker[slot], props[slot], q, timers)
     IN  /\ props' = [props EXCEPT ![slot] = q]
         /\ marker' = [marker EXCEPT ![slot] = c[1]]
         /\ timers' = c[2]
  /\ last' = [Op("RestartMarker", marker[slot].xy) EXCEPT !.slot = slot]
  /\ UNCHANGED <<schedule, appVars, pc, mesh>>

NextPole ==
  \/ \E t \in timers : Tick(t)
  \/ \E slot \in Slots : RestartMarker(slot)

SpecPole == InitPole /\ [][NextPole]_vars

(***************************************************************************)
(* One DescentMarker re-rendered by its parent while time passes.  The     *)
(* schedule holds the time now, the time each live interval is due and the *)
(* time the effect last ran.  A due callback runs at its time or up to     *)
(* MaxLateness after it.                                                   *)
(***************************************************************************)
\* the time passes in steps of 5 ms, for 40 ms
TimeStep == Int2Num(5)
MaxTime == 40
MaxLateness == TimeStep

\* the closures the parent creates for the fn prop
MaxFnChanges == 1

\* stepsPerSecond values with periods of 20 ms and 10 ms
TimedSps == {Int2Num(50), Int2Num(100)}

NoDue == <<>>

\* variant of FirstDue: the interval armed in place of another takes over the
\* time that one was due
FirstDueCarried(now, old, p) ==
  IF old # NoDue THEN old ELSE Add(now, Div(Int2Num(1000), p.stepsPerSecond))

\* setInterval(callback, 1000 / stepsPerSecond) called at the time now, another
\* interval of the instance having been due at old: the first call of the
\* callback is one period from now
FirstDue(now, old, p) == Add(now, Div(Int2Num(1000), p.stepsPerSecond))

\* whether the commit of props q over instance m rendered with p runs the
\* effect: on mount, and when a dependency is not Object.is its predecessor
EffectReruns(m, p, q) == ~m.mounted \/ m.key # q.key \/ DepsChanged(p, q)

\* the schedule after the commit c = Commit(1, m, p, q, timers) at the time now
Rescheduled(sch, m, p, q, c) ==
  IF EffectReruns(m, p, q)
  THEN [now |-> sch.now,
        armed |-> sch.now,
        due |-> [i \in {t.id : t \in c[2]} |->
                   IF i = c[1].timer
                   THEN FirstDue(sch.now,
                                 IF m.mounted /\ m.timer \in DOMAIN sch.due
                                 THEN sch.due[m.timer] ELSE NoDue, q)
                   ELSE sch.due[i]]]
  ELSE sch

\* the parent renders <DescentMarker ...q />
TimedCommit(name, q) ==
  LET c == Commit(1, marker[1], props[1], q, timers)
  IN  /\ props' = [props EXCEPT ![1] = q]
      /\ marker' = [marker EXCEPT ![1] = c[1]]
      /\ timers' = c[2]
      /\ schedule' = Rescheduled(schedule, marker[1], props[1], q, c)
      /\ last' = Op(name, marker[1].xy)
      /\ UNCHANGED <<appVars, pc, mesh>>

InitTimed ==
  /\ learningRate = DEFAULT_LEARNING_RATE
  /\ stepsPerSecond = DEFAULT_STEPS_PER_SECOND
  /\ restartKey = 0
  /\ selectedSurface = "global-minimum"
  /\ customStartPosition = NoPosition
  /\ pc = "idle"
  /\ \E sps \in TimedSps :
       LET q == [key |-> 0, fn |-> "paraboloid", start |-> <<Int2Num(1), Int2Num(1)>>,
                 lr |-> Lit(80), stepsPerSecond |-> sps, alloc |-> 0]
           c == Commit(1, NoMarker, NoProps, q, {})
       IN  /\ props = <<q, NoProps>>
           /\ marker = <<c[1], NoMarker>>
           /\ timers = c[2]
           /\ schedule = Rescheduled([now |-> Zero, armed |-> Zero, due |-> <<>>],
                                     NoMarker, NoProps, q, c)
  /\ last = Op("none", NoPosition)
  /\ mesh = NoMesh

\* the parent re-renders with another lr
TimedSetLr(v) ==
  /\ v # props[1].lr
  /\ TimedCommit("SetLearningRate", [props[1] EXCEPT !.lr = v])

\* the parent re-renders with another stepsPerSecond
TimedSetSps(v) ==
  /\ v # props[1].stepsPerSecond
  /\ TimedCommit("SetStepsPerSecond", [props[1] EXCEPT !.stepsPerSecond = v])

\* the parent re-renders with a new closure of the same function, as one
\* written inline in its JSX is
TimedNewFn ==
  /\ props[1].alloc < MaxFnChanges
  /\ TimedCommit("NewFn", [props[1] EXCEPT !.alloc = @ + 1])

\* the parent re-renders with the props as they are
TimedRerender ==
  /\ last.op # "Rerender"
  /\ TimedCommit("Rerender", props[1])

\* the interval t, being due, fires: setXy(updater); its next call is one
\* period later
TimedTick(t) ==
  /\ t \in timers
  /\ ~Less(schedule.now, schedule.due[t.id])
  /\ marker[t.slot].ticks < MaxTicks
  /\ marker' = [marker EXCEPT ![t.slot].xy = Updater(t.fn, t.lr, marker[t.slot].xy),
                              ![t.slot].ticks = @ + 1]
  /\ schedule' = [schedule EXCEPT !.due[t.id] = Add(schedule.now, t.intervalMs)]
  /\ last' = [op |-> "Tick", slot |-> t.slot, from |-> marker[t.slot].xy, lr |-> t.lr,
              intervalMs |-> t.intervalMs]
  /\ UNCHANGED <<appVars, pc, props, timers, mesh>>

\* time passes, no callback being later than MaxLateness
Advance ==
  /\ Less(schedule.now, Int2Num(MaxTime))
  /\ \A t \in timers :
       marker[t.slot].ticks < MaxTicks =>
         Less(schedule.now, Add(schedule.due[t.id], MaxLateness))
  /\ schedule' = [schedule EXCEPT !.now = Add(@, TimeStep)]
  /\ UNCHANGED <<appVars, pc, props, marker, timers, last, mesh>>

NextTimed ==
  \/ \E v \in MarkerLrs : TimedSetLr(v)
  \/ \E v \in TimedSps : TimedSetSps(v)
  \/ TimedNewFn
  \/ TimedRerender
  \/ \E t \in timers : TimedTick(t)
  \/ Advance

SpecTimed == InitTimed /\ [][NextTimed]_vars

(***************************************************************************)
(* A SurfaceMesh rendered by a harness, then re-rendered with one prop     *)
(* changed at a time.                                                      *)
(***************************************************************************)
\* the first render of <SurfaceMesh ...p />
MountMesh(p) ==
  /\ mesh = NoMesh
  /\ schedule = NoSchedule
  /\ mesh' = [props |-> p, geometry |-> Geometry(p)]
  /\ UNCHANGED <<schedule, appVars, pc, props, marker, timers, last>>

\* a later render with props q
RenderMesh(q) ==
  /\ mesh # NoMesh
  /\ Cardinality({k \in DOMAIN q : q[k] # mesh.props[k]}) <= 1
  /\ mesh' = [props |-> q,
              geometry |-> IF MeshDepsChanged(mesh.props, q) THEN Geometry(q)
                           ELSE mesh.geometry]
  /\ UNCHANGED <<schedule, appVars, pc, props, marker, timers, last>>

InitMesh ==
  /\ learningRate = DEFAULT_LEARNING_RATE
  /\ stepsPerSecond = DEFAULT_STEPS_PER_SECOND
  /\ restartKey = 0
  /\ selectedSurface = "global-minimum"
  /\ customStartPosition = NoPosition
  /\ pc = "init"
  /\ props = <<NoProps, NoProps>>
  /\ marker = <<NoMarker, NoMarker>>
  /\ timers = {}
  /\ last = Op("none", NoPosition)
  /\ mesh = NoMesh
  /\ schedule = NoSchedule

NextMesh ==
  \/ \E p \in MeshProps \cup MalformedMeshProps : MountMesh(p)
  \/ \E q \in MeshProps \cup MalformedMeshProps : RenderMesh(q)

SpecMesh == InitMesh /\ [][NextMesh]_vars

(***************************************************************************)
(* The App of src/src/App.tsx: one fixed surface, whose fn closure and     *)
(* range arrays are written inline in the JSX and so are created anew by   *)
(* every render of App.                                                    *)
(***************************************************************************)
\* the grid resolution that stands for steps={120}
InlineSteps == 2

\* the renders of App that are followed
MaxRenders == 4

\* the element <SurfaceMesh fn={(x, y) => ...} xRange={[-4, 4]}
\* yRange={[-4, 4]} steps /> of the given render; zScale takes its default
InlineMeshElement(render) ==
  [fn |-> "global-minimum", xRange |-> <<Int2Num(-4), Int2Num(4)>>,
   yRange |-> <<Int2Num(-4), Int2Num(4)>>, steps |-> InlineSteps, zScale |-> AppZScale,
   alloc |-> render]

\* the element <DescentMarker key={restartKey} fn={(x, y) => ...}
\* start={[2.5, 2.0]} lr stepsPerSecond /> of the given render
InlineMarkerElement(lr, sps, key, render) ==
  [key |-> key, fn |-> "global-minimum", start |-> <<Lit(25000), Int2Num(2)>>, lr |-> lr,
   stepsPerSecond |-> sps, alloc |-> render]

\* SurfaceMesh rendered with props q over the memo m of its last render:
\* useMemo calls the geometry callback iff a dependency is not Object.is its
\* predecessor; builds counts the calls
InlineMesh(m, q) ==
  IF m = NoMesh THEN [props |-> q, geometry |-> Geometry(q), builds |-> 1]
  ELSE IF MeshDepsChanged(m.props, q)
       THEN [props |-> q, geometry |-> Geometry(q), builds |-> m.builds + 1]
       ELSE [props |-> q, geometry |-> m.geometry, builds |-> m.builds]

\* App re-renders with the given state and React commits the result
InlineCommit(name, strict, lr, sps, key) ==
  LET render == IF mesh = NoMesh THEN 1 ELSE mesh.props.alloc + 1
      q == InlineMarkerElement(lr, sps, key, render)
      c == Commit(1, marker[1], props[1], q, timers)
  IN  /\ render <= MaxRenders
      /\ learningRate' = lr
      /\ stepsPerSecond' = sps
      /\ restartKey' = key
      /\ props' = [props EXCEPT ![1] = q]
      /\ marker' = [marker EXCEPT ![1] = c[1]]
      /\ timers' = c[2]
      /\ pc' = IF c[3] /\ strict THEN "strictCleanup" ELSE "idle"
      /\ last' = Op(name, marker[1].xy)
      /\ mesh' = InlineMesh(mesh, InlineMeshElement(render))
      /\ UNCHANGED <<selectedSurface, customStartPosition, schedule>>

InlineMount(strict) ==
  /\ pc = "init"
  /\ InlineCommit("Mount", strict, learningRate, stepsPerSecond, restartKey)

\* Restart button onClick
InlineRestart(strict) ==
  /\ pc = "idle"
  /\ restartKey < MaxRestarts
  /\ InlineCommit("Restart", strict, learningRate, stepsPerSecond, restartKey + 1)

\* learning-rate slider onValueChange; a set state equal to the current one
\* renders nothing
InlineSetLearningRate(v) ==
  /\ pc = "idle"
  /\ ToFixed3(v) # learningRate
  /\ InlineCommit("SetLearningRate", FALSE, ToFixed3(v), stepsPerSecond, restartKey)

\* steps-per-second slider onValueChange
InlineSetStepsPerSecond(v) ==
  /\ pc = "idle"
  /\ v # stepsPerSecond
  /\ InlineCommit("SetStepsPerSecond", FALSE, learningRate, v, restartKey)

NextInline ==
  \/ \E strict \in BOOLEAN : InlineMount(strict)
  \/ StrictCleanup
  \/ StrictEffect
  \/ \E t \in timers : Tick(t)
  \/ \E strict \in BOOLEAN : InlineRestart(strict)
  \/ \E v \in LrInputs : InlineSetLearningRate(v)
  \/ \E v \in SpsInputs : InlineSetStepsPerSecond(v)

SpecInline == InitMesh /\ [][NextInline]_vars
(***************************************************************************)
(* Properties.  Those about the mesh are stated for SpecMesh, those about  *)
(* one or two markers stepped by a harness for SpecMarker, those about the *)
(* App for Spec.                                                           *)
(***************************************************************************)
\* |a - b| < eps
Close(a, b, eps) == Less(Abs(Sub(a, b)), eps)

\* C1: for every field and domain with steps = N >= 1 the geometry has
\* (N + 1)^2 vertices, each with one position triple and one colour triple,
\* and 2 N^2 triangles, i.e. 6 N^2 indices.
C1_MeshCounts ==
  mesh # NoMesh =>
    LET N == mesh.props.steps
    IN  N >= 1 =>
        /\ Len(mesh.geometry.vertices) = 3 * ((N + 1) * (N + 1))
        /\ Len(mesh.geometry.colors) = 3 * ((N + 1) * (N + 1))
        /\ Len(mesh.geometry.indices) = 6 * (N * N)

\* a 3 x 3 grid over the default preset: 16 vertices, 18 triangles
C1_Witness ==
  /\ mesh # NoMesh
  /\ mesh.props.fn = "global-minimum"
  /\ mesh.props.steps = 3
  /\ Len(mesh.geometry.vertices) = 48
  /\ Len(mesh.geometry.indices) = 54

\* C2: a tick replaces (x, y) by (x - lr gx, y - lr gy) with (gx, gy) the
\* gradient estimate at the position committed just before the tick, for both
\* coordinates, on the first tick and on every later one.
C2_TickUpdate ==
  last.op = "Tick" =>
    The({marker[last.slot].xy = <<Sub(last.from[1], Mul(last.lr, g[1])),
                                  Sub(last.from[2], Mul(last.lr, g[2]))>> :
         g \in {grad(props[last.slot].fn, last.from[1], last.from[2])}})

\* a second tick on a field whose y-gradient depends on x: it starts from the
\* result of the first tick, not from the start, and moves both coordinates
C2_Witness ==
  /\ last.op = "Tick"
  /\ props[last.slot].fn = "global-minimum"
  /\ marker[last.slot].ticks = 2
  /\ last.from # marker[last.slot].origin
  /\ marker[last.slot].xy[1] # last.from[1]
  /\ marker[last.slot].xy[2] # last.from[2]

C4_CentralDifferences ==
  /\ h = Lit(10)
  /\ last.op = "Tick" =>
       The({grad(f, x, y) =
              <<Div(Sub(Call(f, Add(x, Lit(10)), y), Call(f, Sub(x, Lit(10)), y)),
                    Mul(Int2Num(2), Lit(10))),
                Div(Sub(Call(f, x, Add(y, Lit(10))), Call(f, x, Sub(y, Lit(10)))),
                    Mul(Int2Num(2), Lit(10)))>> :
            f \in {props[last.slot].fn}, x \in {last.from[1]}, y \in {last.from[2]}})
  /\ (props[1].fn = "paraboloid" /\ marker[1].xy = <<Int2Num(1), Int2Num(1)>>) =>
       The({/\ Close(g[1], Int2Num(2), Div(Lit(1), Int2Num(10)))
            /\ Close(g[2], Int2Num(2), Div(Lit(1), Int2Num(10))) :
            g \in {grad("paraboloid", marker[1].xy[1], marker[1].xy[2])}})

\* a tick of the x^2 + y^2 run that starts from (1, 1)
C4_Witness ==
  /\ last.op = "Tick"
  /\ props[last.slot].fn = "paraboloid"
  /\ last.from = <<Int2Num(1), Int2Num(1)>>
  /\ marker[last.slot].xy # last.from

\* C5: pressing Restart after ticks have moved the position makes the position
\* exactly the configured start, on a new instance with no tick taken.
C5_RestartResets ==
  last.op = "Restart" =>
    /\ marker[1].mounted
    /\ marker[1].key = restartKey
    /\ marker[1].ticks = 0
    /\ marker[1].xy = StartPosition(selectedSurface, customStartPosition)

\* a Restart from a position that had drifted from the start
C5_Witness ==
  /\ last.op = "Restart"
  /\ last.from # StartPosition(selectedSurface, customStartPosition)
  /\ marker[1].xy = StartPosition(selectedSurface, customStartPosition)

\* C6: the start prop of the mounted marker is the configured start and the
\* mounted instance was initialised from it; right after a Ctrl+click, a Reset
\* to Default or a surface selection the position is the new start.
C6_StartChangeResets ==
  /\ marker[1].mounted =>
       /\ props[1].start = StartPosition(selectedSurface, customStartPosition)
       /\ marker[1].origin = props[1].start
       /\ marker[1].ticks = 0 => marker[1].xy = props[1].start
  /\ last.op \in {"SurfaceClick", "ResetToDefault", "SelectSurface"} =>
       marker[1].xy = StartPosition(selectedSurface, customStartPosition)

\* a Reset to Default from a position on the trajectory of a custom start
C6_Witness ==
  /\ last.op = "ResetToDefault"
  /\ last.from # SurfaceStart(selectedSurface)
  /\ marker[1].xy = SurfaceStart(selectedSurface)
  /\ marker[1].origin = SurfaceStart(selectedSurface)

C8_OneInterval ==
  /\ Cardinality(timers) <= 1
  /\ \A t \in timers : marker[t.slot].mounted /\ marker[t.slot].timer = t.id
  /\ pc = "unmounted" => timers = {}

\* unmounted after a parameter change and a restart
C8_Witness ==
  /\ pc = "unmounted"
  /\ timers = {}
  /\ restartKey > 0
  /\ learningRate # DEFAULT_LEARNING_RATE

Running == timers # {}

\* the states between commits: Running exactly when a marker is mounted; inside
\* a StrictMode mount the cleanup leaves the instance without its interval
\* until the effect runs again
C9_States ==
  /\ pc \in {"init", "unmounted"} => ~marker[1].mounted /\ ~Running
  /\ pc \in {"idle", "strictCleanup"} => marker[1].mounted /\ Running
  /\ pc = "strictEffect" => marker[1].mounted /\ ~Running

\* Stopped -> Running on a mount only, Running -> Stopped on teardown only
C9_Steps ==
  /\ (~Running /\ Running') => pc \in {"init", "strictEffect"}
  /\ (Running /\ ~Running') => pc' \in {"unmounted", "strictEffect"}

\* C9: between commits the stepper is Running exactly while a marker is
\* mounted; it starts on a mount and stops on teardown only; no handler leaves
\* a mounted marker without its interval.
C9_RunningStopped == []C9_States /\ [][C9_Steps]_vars

\* a mounted marker, running, after a slider change, a click and a selection
C9_Witness ==
  /\ pc = "idle"
  /\ marker[1].mounted
  /\ Running
  /\ learningRate # DEFAULT_LEARNING_RATE
  /\ selectedSurface # "global-minimum"
  /\ customStartPosition # NoPosition

\* C10: two markers with the same fn, start and lr have the same position
\* whenever they have taken the same number of ticks, whatever their tick
\* rates and the order in which their ticks fire.
C10_Deterministic ==
  (/\ props[1].fn = props[2].fn
   /\ props[1].start = props[2].start
   /\ props[1].lr = props[2].lr
   /\ marker[1].ticks = marker[2].ticks)
  => marker[1].xy = marker[2].xy

\* both have taken two ticks at different rates, the second marker last
C10_Witness ==
  /\ props[1].fn = "global-minimum"
  /\ props[1].stepsPerSecond # props[2].stepsPerSecond
  /\ marker[1].ticks = 2
  /\ marker[2].ticks = 2
  /\ last.slot = 2
  /\ marker[1].xy = marker[2].xy
  /\ marker[1].xy # marker[1].origin

\* the number of vertices of geometry g, the height of its vertex k (from 1)
\* and the colour triple of that vertex
VertexCount(g) == Len(g.vertices) \div 3

HeightOf(g, k) == g.vertices[3 * k - 1]

ColourOf(g, k) == SubSeq(g.colors, 3 * k - 2, 3 * k)

\* all sampled heights of g are equal
FlatSample(g) == \A k \in 1..VertexCount(g) : StrictEq(HeightOf(g, k), HeightOf(g, 1))

\* C11: when all sampled heights are equal every vertex has exactly the mid
\* stop's colour, yellow (1, 1, 0); the normalisation does not divide.
C11_FlatIsMidColour ==
  (mesh # NoMesh /\ FlatSample(mesh.geometry)) =>
    \A k \in 1..VertexCount(mesh.geometry) :
      ColourOf(mesh.geometry, k) = <<Int2Num(1), Int2Num(1), Zero>>

\* a constant field on a 3 x 3 grid
C11_Witness ==
  /\ mesh # NoMesh
  /\ mesh.props.fn = "flat"
  /\ mesh.props.steps = 3
  /\ FlatSample(mesh.geometry)
  /\ ColourOf(mesh.geometry, 16) = <<Int2Num(1), Int2Num(1), Zero>>

\* a <= b
AtMost(a, b) == Less(a, b) \/ StrictEq(a, b)

\* the position in [0, 1] along red -> yellow -> green of a colour c of the
\* ramp: the first segment is (1, s, 0), the second (1 - s, 1, 0.4 s)
RampPosition(c) ==
  IF Less(c[2], Int2Num(1)) THEN Mul(c[2], Lit(5000))
  ELSE Add(Lit(5000), Mul(Sub(Int2Num(1), c[1]), Lit(5000)))

\* the ramp positions of the vertices of g
RampPositions(g) ==
  The({SubSeq(f, 1, VertexCount(g)) :
       f \in {[k \in 1..VertexCount(g) |-> RampPosition(ColourOf(g, k))]}})

\* C12: a vertex that is not higher than another is not further along the
\* ramp, and the two segments meet at the mid colour: the end of the first
\* and the start of the second are both yellow.
C12_RampMonotone ==
  /\ Lerp(colorRed, colorYellow, Int2Num(1)) = colorYellow
  /\ Lerp(colorYellow, colorGreen, Zero) = colorYellow
  /\ mesh # NoMesh =>
       The({\A j, k \in 1..VertexCount(mesh.geometry) :
              AtMost(HeightOf(mesh.geometry, j), HeightOf(mesh.geometry, k))
                => AtMost(pos[j], pos[k]) :
            pos \in {RampPositions(mesh.geometry)}})

\* x^2 + y^2 on a 2 x 2 grid: the centre is at the low stop, the corners at the
\* high stop and the edge midpoints exactly at the mid colour
C12_Witness ==
  /\ mesh # NoMesh
  /\ mesh.props.fn = "paraboloid"
  /\ mesh.props.steps = 2
  /\ ColourOf(mesh.geometry, 5) = colorRed
  /\ ColourOf(mesh.geometry, 2) = colorYellow
  /\ ColourOf(mesh.geometry, 1) = colorGreen
  /\ Less(HeightOf(mesh.geometry, 5), HeightOf(mesh.geometry, 2))
  /\ Less(HeightOf(mesh.geometry, 2), HeightOf(mesh.geometry, 1))

\* C13: a mesh is constructed only for a well-formed domain (xMin < xMax,
\* yMin < yMax, steps >= 1); any other is rejected.
C13_MalformedRejected ==
  mesh # NoMesh =>
    /\ Less(mesh.props.xRange[1], mesh.props.xRange[2])
    /\ Less(mesh.props.yRange[1], mesh.props.yRange[2])
    /\ mesh.props.steps >= 1

\* the vertices of g whose height no vertex is below, and those no vertex is above
LowestVertices(g) ==
  {k \in 1..VertexCount(g) : \A j \in 1..VertexCount(g) : AtMost(HeightOf(g, k), HeightOf(g, j))}
HighestVertices(g) ==
  {k \in 1..VertexCount(g) : \A j \in 1..VertexCount(g) : AtMost(HeightOf(g, j), HeightOf(g, k))}

\* C14: green = low, yellow = mid, red = high: on a mesh that is not flat the
\* vertices of minimum height carry the green stop, those of maximum height
\* the red stop, and a vertex half way between the two carries yellow.
C14_GreenLowRedHigh ==
  (mesh # NoMesh /\ ~FlatSample(mesh.geometry)) =>
    The({/\ \A k \in LowestVertices(g) : ColourOf(g, k) = colorGreen
         /\ \A k \in HighestVertices(g) : ColourOf(g, k) = colorRed
         /\ \A k \in 1..VertexCount(g), lo \in LowestVertices(g), hi \in HighestVertices(g) :
              Add(HeightOf(g, k), HeightOf(g, k)) = Add(HeightOf(g, lo), HeightOf(g, hi))
                => ColourOf(g, k) = colorYellow :
         g \in {mesh.geometry}})

\* the k-th triangle (from 0) of the index list
Triangle(g, k) == SubSeq(g.indices, 3 * k + 1, 3 * k + 3)

\* C20: for steps = N >= 1 every index is in 0..(N+1)^2 - 1, and the cell
\* (x, y) with a = y(N+1)+x, b = a+1, c = a+(N+1), d = c+1 contributes
\* exactly the triangles (a, c, b) and (b, c, d): 2 N^2 triangles in all, none
\* spanning more than two adjacent columns and two adjacent rows.
C20_Triangulation ==
  (mesh # NoMesh /\ mesh.props.steps >= 1) =>
    LET N == mesh.props.steps
        g == mesh.geometry
    IN  /\ Len(g.indices) = 3 * (2 * (N * N))
        /\ \A i \in 1..Len(g.indices) : g.indices[i] \in 0..((N + 1) * (N + 1) - 1)
        /\ \A x, y \in 0..(N - 1) :
             LET a == y * (N + 1) + x
                 b == a + 1
                 c == a + (N + 1)
                 d == c + 1
             IN  /\ Triangle(g, 2 * (y * N + x)) = <<a, c, b>>
                 /\ Triangle(g, 2 * (y * N + x) + 1) = <<b, c, d>>
        /\ \A k \in 0..(2 * (N * N) - 1) :
             LET cols == {Triangle(g, k)[i] % (N + 1) : i \in 1..3}
                 rows == {Triangle(g, k)[i] \div (N + 1) : i \in 1..3}
             IN  /\ \E x \in 0..(N - 1) : cols = {x, x + 1}
                 /\ \E y \in 0..(N - 1) : rows = {y, y + 1}

C20_Witness ==
  /\ mesh # NoMesh
  /\ mesh.props.steps = 3
  /\ Len(mesh.geometry.indices) = 54
  /\ Triangle(mesh.geometry, 4) = <<2, 6, 3>>
  /\ Triangle(mesh.geometry, 6) = <<4, 8, 5>>
  /\ Triangle(mesh.geometry, 17) = <<11, 14, 15>>

\* what a pointer-down with the given ctrlKey at the point of the surface over
\* the planar coordinates c (or at no point) is to do
CtrlClickSetsStart(strict, ctrlKey, c) ==
  LET point == IF c = NoPoint THEN NoPoint ELSE HitPoint(selectedSurface, c)
  IN  PointerDown(strict, ctrlKey, point) =>
        IF ctrlKey /\ point # NoPoint
        THEN /\ customStartPosition' = <<WorldToLocal(point)[1], WorldToLocal(point)[3]>>
             /\ Close(customStartPosition'[1], c[1], Lit(1))
             /\ Close(customStartPosition'[2], c[2], Lit(1))
             /\ restartKey' = restartKey + 1
             /\ marker'[1].key = restartKey'
             /\ marker'[1].ticks = 0
             /\ marker'[1].xy = customStartPosition'
        ELSE UNCHANGED <<customStartPosition, restartKey, marker, props, timers>>

\* C17: a pointer-down with Ctrl at an intersection point makes the point's
\* mesh-local (x, z) the custom start and restarts, so that the position is
\* that pair; any other pointer-down leaves the custom start, the restart key
\* and the position as they were.
C17_CtrlClick ==
  [][last'.op \in {"SurfaceClick", "PointerDown"} =>
       \A strict, ctrlKey \in BOOLEAN, c \in ClickPoints \cup {NoPoint} :
         CtrlClickSetsStart(strict, ctrlKey, c)]_vars

\* a Ctrl+click after the marker had moved, landing over (-1, 2)
C17_Witness ==
  /\ last.op = "SurfaceClick"
  /\ last.from # marker[1].xy
  /\ customStartPosition # NoPosition
  /\ Close(customStartPosition[1], Int2Num(-1), Lit(1))
  /\ Close(customStartPosition[2], Int2Num(2), Lit(1))
  /\ marker[1].xy = customStartPosition

\* the start in effect, and the position right after a selection or a reset
C18_States ==
  /\ marker[1].mounted =>
       props[1].start = IF customStartPosition # NoPosition THEN customStartPosition
                        ELSE SurfaceStart(selectedSurface)
  /\ last.op \in {"SelectSurface", "ResetToDefault"} =>
       /\ customStartPosition = NoPosition
       /\ marker[1].key = restartKey
       /\ marker[1].ticks = 0
       /\ marker[1].xy = SurfaceStart(selectedSurface)

\* a change of the selected surface drops the custom start and puts the marker
\* on the new surface's default start
C18_Steps ==
  selectedSurface' # selectedSurface =>
    /\ customStartPosition' = NoPosition
    /\ restartKey' = restartKey + 1
    /\ props'[1].start = SurfaceStart(selectedSurface')
    /\ marker'[1].xy = SurfaceStart(selectedSurface')

\* C18: selecting a surface or Reset to Default clears the custom start and
\* restarts, the position then being the selected preset's default start; a
\* custom start does not survive a change of surface; the start in effect is
\* the custom start if there is one and the preset's default otherwise.
C18_SelectionClearsCustom == []C18_States /\ [][C18_Steps]_vars

\* the saddle surface selected right after a Ctrl+click on the first surface
C18_Witness ==
  /\ last.op = "SelectSurface"
  /\ selectedSurface = "saddle-point"
  /\ Close(last.from[1], Int2Num(-1), Lit(1))
  /\ Close(last.from[2], Int2Num(2), Lit(1))
  /\ customStartPosition = NoPosition
  /\ marker[1].xy = SurfaceStart("saddle-point")

\* C19: the mesh is computed anew only when the field, the domain, the
\* resolution or the scale changes.  In the App of src/src/App.tsx none of
\* them ever changes, so the geometry callback runs for the first render only:
\* ticks, learning-rate changes, tick-rate changes and restarts trigger none.
C19_MeshComputedOnce ==
  (mesh # NoMesh /\ last.op \in {"Tick", "SetLearningRate", "SetStepsPerSecond", "Restart"}) =>
    mesh.builds = 1

\* a tick of the marker in the given slot
TickOf(slot) == \E t \in timers : t.slot = slot /\ TickAgain(t)

\* the estimated gradient at the position of the marker in the slot is zero
Stationary(slot) ==
  grad(props[slot].fn, marker[slot].xy[1], marker[slot].xy[2]) = <<Zero, Zero>>

\* the position of the marker in the slot is outside the domain rectangle
OutsideDomain(slot) ==
  \/ Less(marker[slot].xy[1], LiveDomain[1][1])
  \/ Less(LiveDomain[1][2], marker[slot].xy[1])
  \/ Less(marker[slot].xy[2], LiveDomain[2][1])
  \/ Less(LiveDomain[2][2], marker[slot].xy[2])

\* C15: a mounted marker goes on ticking: in each slot ticks are taken
\* infinitely often unless the marker is unmounted for good, wherever the
\* position is: at a stationary point, at a minimum it has reached, on a
\* cycle, outside the domain rectangle.
C15_TicksForever ==
  \A slot \in Slots : []<><<TickOf(slot)>>_vars \/ <>[](~marker[slot].mounted)

\* the first marker rests at a stationary point and the second is outside the
\* domain rectangle, both having ticked before
C15_Witness ==
  /\ marker[1].mounted /\ marker[2].mounted
  /\ last.op = "Tick"
  /\ last.slot = 2
  /\ Stationary(1)
  /\ marker[1].xy = marker[1].origin
  /\ marker[1].ticks = 1
  /\ OutsideDomain(2)
  /\ marker[2].xy # marker[2].origin

\* the field value at the grid point of vertex k of the mesh
FieldAt(k) ==
  Call(mesh.props.fn, mesh.geometry.vertices[3 * k - 2], mesh.geometry.vertices[3 * k])

\* the height of every vertex is the field value times zScale, and a field
\* value that is NaN or infinite is the height as it is
C16_States ==
  mesh # NoMesh =>
    \A k \in 1..VertexCount(mesh.geometry) :
      The({/\ HeightOf(mesh.geometry, k) = Mul(z, mesh.props.zScale)
           /\ ~IsFinite(z) => HeightOf(mesh.geometry, k) = z :
           z \in {FieldAt(k)}})

\* the same instance of the marker is in the slot before and after the step
SameInstance(slot) ==
  /\ marker[slot].mounted
  /\ marker'[slot].mounted
  /\ marker'[slot].key = marker[slot].key

\* a coordinate that is not finite is not finite after the step, and NaN
\* stays NaN
C16_Steps ==
  \A slot \in Slots, i \in 1..2 :
    (SameInstance(slot) /\ ~IsFinite(marker[slot].xy[i])) =>
      /\ ~IsFinite(marker'[slot].xy[i])
      /\ IsNaN(marker[slot].xy[i]) => IsNaN(marker'[slot].xy[i])

\* C16 (as amended): a field value that is not finite goes into the mesh as
\* it is, and a coordinate of the position that a tick has made non-finite is
\* non-finite after every later tick of the same instance: NaN stays NaN, an
\* infinity stays that infinity or becomes NaN.
C16_NonFiniteStays == []C16_States /\ [][C16_Steps]_vars

\* C16 (as stated): a coordinate that is not finite keeps its value on every
\* later tick until a restart.
C16_NonFiniteKeepsValue ==
  [][\A slot \in Slots, i \in 1..2 :
       (SameInstance(slot) /\ ~IsFinite(marker[slot].xy[i])) =>
         marker'[slot].xy[i] = marker[slot].xy[i]]_vars

\* the mesh has a NaN and an infinite height, and the second tick has turned
\* the x of the marker from an infinity into NaN
C16_Witness ==
  /\ mesh # NoMesh
  /\ IsNaN(HeightOf(mesh.geometry, 5))
  /\ IsInfinite(HeightOf(mesh.geometry, 2))
  /\ last.op = "Tick"
  /\ marker[last.slot].ticks = 2
  /\ IsInfinite(last.from[1])
  /\ IsNaN(marker[last.slot].xy[1])

\* the mesh has a well-formed domain and finite heights that are not all equal
ProperMesh ==
  /\ mesh # NoMesh
  /\ Less(mesh.props.xRange[1], mesh.props.xRange[2])
  /\ Less(mesh.props.yRange[1], mesh.props.yRange[2])
  /\ mesh.props.steps >= 1
  /\ \A k \in 1..VertexCount(mesh.geometry) : IsFinite(HeightOf(mesh.geometry, k))
  /\ ~FlatSample(mesh.geometry)

\* (z - zMin) / (zMax - zMin)
NormalisedHeight(z, zMin, zMax) == Div(Sub(z, zMin), Sub(zMax, zMin))

\* C21: on a well-formed domain with steps = N >= 1 and a finite field that
\* is not constant on the grid, the vertex of row iy and column ix is vertex
\* iy (N + 1) + ix (from 0), at (xMin + (xMax - xMin) ix / N, f(x, y) zScale,
\* yMin + (yMax - yMin) iy / N); its normalised height is in [0, 1], being 0
\* with the low stop for a lowest vertex and 1 with the high stop for a
\* highest one.
C21_GridAndRamp ==
  ProperMesh =>
    LET N == mesh.props.steps
        g == mesh.geometry
        xr == mesh.props.xRange
        yr == mesh.props.yRange
        one == Int2Num(1)
        eps == Div(Lit(1), Int2Num(100000))
    IN  \E lo \in LowestVertices(g), hi \in HighestVertices(g) :
          /\ Less(HeightOf(g, lo), HeightOf(g, hi))
          /\ \A iy, ix \in 0..N :
               The({/\ v[1] = Add(xr[1], Mul(Sub(xr[2], xr[1]), Div(Int2Num(ix), Int2Num(N))))
                    /\ v[3] = Add(yr[1], Mul(Sub(yr[2], yr[1]), Div(Int2Num(iy), Int2Num(N))))
                    /\ Close(v[1], Add(xr[1], Div(Mul(Sub(xr[2], xr[1]), Int2Num(ix)),
                                                  Int2Num(N))), eps)
                    /\ Close(v[3], Add(yr[1], Div(Mul(Sub(yr[2], yr[1]), Int2Num(iy)),
                                                  Int2Num(N))), eps)
                    /\ v[2] = Mul(Call(mesh.props.fn, v[1], v[3]), mesh.props.zScale)
                    /\ AtMost(Zero, t) /\ AtMost(t, one)
                    /\ AtMost(Zero, RampPosition(c)) /\ AtMost(RampPosition(c), one)
                    /\ Close(RampPosition(c), t, eps)
                    /\ v[2] = HeightOf(g, lo) => (t = Zero /\ c = colorRed)
                    /\ v[2] = HeightOf(g, hi) => (t = one /\ c = colorGreen) :
                    v \in {SubSeq(g.vertices, 3 * (iy * (N + 1) + ix) + 1,
                                  3 * (iy * (N + 1) + ix) + 3)},
                    c \in {ColourOf(g, iy * (N + 1) + ix + 1)},
                    t \in {NormalisedHeight(g.vertices[3 * (iy * (N + 1) + ix) + 2],
                                            HeightOf(g, lo), HeightOf(g, hi))}})

\* the saddle over [-2, 2]^2 with N = 3: vertex 7 (row 1, column 2) is at
\* x = 2/3, y = -2/3, the corner rows hold the lowest and highest vertices
C21_Witness ==
  /\ ProperMesh
  /\ mesh.props.fn = "saddle-point"
  /\ mesh.props.steps = 3
  /\ mesh.props.xRange = <<Int2Num(-2), Int2Num(2)>>
  /\ mesh.props.yRange = <<Int2Num(-2), Int2Num(2)>>
  /\ Close(mesh.geometry.vertices[19], Div(Int2Num(2), Int2Num(3)), Lit(1))
  /\ Close(mesh.geometry.vertices[21], Div(Int2Num(-2), Int2Num(3)), Lit(1))
  /\ LowestVertices(mesh.geometry) # {}
  /\ \A k \in LowestVertices(mesh.geometry) : ColourOf(mesh.geometry, k) = colorRed
  /\ \A k \in HighestVertices(mesh.geometry) : ColourOf(mesh.geometry, k) = colorGreen

\* every interval belongs to the instance now mounted, and an instance that
\* has not ticked is at its start
C22_States ==
  /\ \A t \in timers : marker[t.slot].mounted /\ t.key = marker[t.slot].key
  /\ (marker[1].mounted /\ marker[1].ticks = 0) => marker[1].xy = props[1].start

\* a change of restartKey leaves none of the old intervals and puts the new
\* instance at the start; the position of an instance moves only by a tick of
\* that instance's own interval
C22_Steps ==
  /\ restartKey' # restartKey =>
       /\ \A t \in timers : t \notin timers'
       /\ \A t \in timers' : t.key = restartKey'
       /\ marker'[1].key = restartKey'
       /\ marker'[1].ticks = 0
       /\ marker'[1].xy = props'[1].start
  /\ (marker[1].mounted /\ marker'[1].mounted /\ marker'[1].key = marker[1].key
        /\ marker'[1].xy # marker[1].xy) =>
       /\ last'.op = "Tick"
       /\ \E t \in timers :
            /\ t.id = marker[1].timer
            /\ t.key = marker[1].key
            /\ marker'[1].xy = Updater(t.fn, t.lr, marker[1].xy)

\* C22: a restart leaves no tick of the previous interval to act on the new
\* instance: the old interval is gone with the change of restartKey, and the
\* position is exactly the start until the new instance's own interval ticks.
C22_RestartIsolated == []C22_States /\ [][C22_Steps]_vars

\* the first tick of the instance mounted by a restart, taken from the start
C22_Witness ==
  /\ last.op = "Tick"
  /\ restartKey = 1
  /\ marker[1].key = 1
  /\ marker[1].ticks = 1
  /\ last.from = props[1].start
  /\ marker[1].xy # props[1].start
  /\ \A t \in timers : t.key = 1

\* 1000 / stepsPerSecond of the props p
Period(p) == Div(Int2Num(1000), p.stepsPerSecond)

\* lr, stepsPerSecond or the identity of fn differs between the props p and q
DependencyChange(p, q) ==
  p.lr # q.lr \/ p.stepsPerSecond # q.stepsPerSecond \/ p.alloc # q.alloc \/ p.fn # q.fn

\* one interval is live, of the current period, and it is not due before a
\* full period has passed since the effect last ran
C23_States ==
  /\ Cardinality(timers) = 1
  /\ \A t \in timers :
       /\ t.id = marker[1].timer
       /\ t.intervalMs = Period(props[1])
       /\ DOMAIN schedule.due = {t.id}
       /\ AtMost(Add(schedule.armed, Period(props[1])), schedule.due[t.id])
  /\ AtMost(schedule.armed, schedule.now)

\* a change of a dependency drops the time the old interval was due and makes
\* the one new interval due a full new period from now; a re-render without
\* such a change leaves the schedule alone; a tick comes no sooner than a
\* full period after the last change
C23_Steps ==
  /\ DependencyChange(props[1], props'[1]) =>
       /\ Cardinality(timers') = 1
       /\ schedule'.armed = schedule.now
       /\ schedule'.now = schedule.now
       /\ \A t \in timers' :
            /\ t.lr = props'[1].lr
            /\ schedule'.due = [i \in {t.id} |-> Add(schedule.now, Period(props'[1]))]
  /\ (props' = props /\ marker' = marker) => schedule'.due = schedule.due
  /\ marker'[1].ticks # marker[1].ticks =>
       /\ AtMost(Add(schedule.armed, Period(props[1])), schedule.now)
       /\ props' = props
       /\ schedule'.armed = schedule.armed

\* C23: every change of lr, stepsPerSecond or the identity of fn cancels the
\* pending tick and arms exactly one interval, first due a full new period
\* after the change whatever part of the old period had passed; so a tick
\* comes only once a full period has gone by without such a change.
C23_ChangeRearms == []C23_States /\ [][C23_Steps]_vars

\* 40 ms after the mount, four periods of 10 ms, no tick has been taken: the
\* interval was armed again 5 ms ago and is due in 5 ms
C23_Witness ==
  /\ schedule # NoSchedule
  /\ schedule.now = Int2Num(40)
  /\ props[1].stepsPerSecond = Int2Num(100)
  /\ marker[1].ticks = 0
  /\ schedule.armed = Int2Num(35)
  /\ \A t \in timers : schedule.due[t.id] = Int2Num(45)
====
